---- MODULE Spec2Model ----
(***************************************************************************)
(* A model of the SQL type system (sql_types/src/lib.rs) and of the        *)
(* CREATE SCHEMA / DROP SCHEMA / UPDATE command objects (sql_engine).      *)
(*                                                                         *)
(* Text is a sequence of Unicode code points, stored bytes are sequences   *)
(* of 0..255.  Integers of 2, 4 and 8 bytes are kept as big-endian byte    *)
(* sequences so that the 32 and 64 bit ranges are computed exactly.        *)
(***************************************************************************)
EXTENDS Integers, Sequences, FiniteSets, TLC

VARIABLES
    sqlType,     \* the SqlType whose constraint / serializer is in use
    in_value,    \* the textual input handed to validate and ser
    verdict,     \* what Constraint::validate returned, once called
    out_value,   \* what Serializer::ser returned, once called
    des_value,   \* what Serializer::des returned on out_value, once called
    pg_type,     \* what to_pg_types returned, once called
    storage,     \* the FrontendStorage behind the shared handle
    storage0,    \* the FrontendStorage as it was when the handle was made
    mutex,       \* the Mutex of Arc<Mutex<FrontendStorage>>
    cmd,         \* per caller: the command object it executes
    pc,          \* per caller: its position in execute()
    to_update,   \* per caller: UPDATE's collected (column, value) pairs
    seen,        \* per caller: the storage state its storage call started from
    call_result, \* per caller: what the storage call returned
    result,      \* per caller: what execute() returned
    acquired     \* the callers in the order in which they acquired the handle

typeVars == <<sqlType, in_value, verdict, out_value, des_value, pg_type>>
cmdVars == <<storage, storage0, mutex, cmd, pc, to_update, seen, call_result, result, acquired>>
vars == <<sqlType, in_value, verdict, out_value, des_value, pg_type,
          storage, storage0, mutex, cmd, pc, to_update, seen, call_result, result,
          acquired>>

(***************************************************************************)
(* Bounds of the model.                                                    *)
(***************************************************************************)
\* the longest integer text enumerated exhaustively over IntAlphabet
MaxTextLen == 3
\* the longest string text enumerated exhaustively over StrAlphabet
MaxStrLen == 3
\* the largest declared length n of Char(n) / VarChar(n)
MaxDeclLen == 2
\* the most leading zeros put in front of a boundary text
MaxZeros == 2
\* the number of concurrent callers of execute() on the one storage handle
NumCallers == 2

None == [tag |-> "None"]
Some(v) == [tag |-> "Some", val |-> v]
Panic(why) == [tag |-> "Panic", why |-> why]

(***************************************************************************)
(* SqlType                                                                 *)
(***************************************************************************)
IntKinds == {"SmallInt", "Integer", "BigInt"}
StrKinds == {"Char", "VarChar"}
OtherKinds == {"Bool", "Decimal", "Real", "DoublePrecision", "Time", "TimeWithTimeZone",
               "Timestamp", "TimestampWithTimeZone", "Date", "Interval"}

SqlType == [kind : IntKinds \cup OtherKinds, length : {0}]
               \cup [kind : StrKinds, length : 0..MaxDeclLen]

\* the byte width of the integer the kind is parsed as: i16, i32, i64
IntWidth(kind) ==
    CASE kind = "SmallInt" -> 2
      [] kind = "Integer" -> 4
      [] kind = "BigInt" -> 8

(***************************************************************************)
(* Fixed-width integers as big-endian byte sequences.                      *)
(***************************************************************************)
ZeroBytes(w) == [i \in 1..w |-> 0]

\* the magnitude of the least value: 0x80 0x00 ... 0x00
MinMagnitude(w) == [i \in 1..w |-> IF i = 1 THEN 128 ELSE 0]

\* mag * k + c over the bytes; the head of the result is the carry out
RECURSIVE MulAddBytes(_, _, _)
MulAddBytes(mag, k, c) ==
    IF mag = <<>> THEN <<c>>
    ELSE LET t == mag[Len(mag)] * k + c
         IN MulAddBytes(SubSeq(mag, 1, Len(mag) - 1), k, t \div 256) \o <<t % 256>>

\* mag divided by k with r carried in; the last entry of the result is the remainder
RECURSIVE DivModBytes(_, _, _)
DivModBytes(mag, k, r) ==
    IF mag = <<>> THEN <<r>>
    ELSE LET t == r * 256 + mag[1]
         IN <<t \div k>> \o DivModBytes(Tail(mag), k, t % k)

\* two's complement negation within the width: invert, add one, drop the carry
Negate(bytes) == Tail(MulAddBytes([i \in 1..Len(bytes) |-> 255 - bytes[i]], 1, 1))

\* a range that is symmetric around zero: the least value does not fit
FitsSymmetric(ext, neg) == ext[1] = 0 /\ ext[2] < 128

\* does sign and magnitude (with carry at the head) fit the signed width?
Fits(ext, neg) ==
    /\ ext[1] = 0
    /\ \/ ext[2] < 128
       \/ neg /\ Tail(ext) = MinMagnitude(Len(ext) - 1)

(***************************************************************************)
(* lexical::parse::<iN, _>(in_value), the complete decimal parser.         *)
(***************************************************************************)
to_digit(c) == IF c \in 48..57 THEN c - 48 ELSE -1

\* the digit loop: checked_mul by the radix, then checked_add (checked_sub for
\* a negative); a non-digit stops the loop and leaves input unparsed
RECURSIVE atoi_digits(_, _, _, _)
atoi_digits(digits, i, mag, neg) ==
    IF i > Len(digits) THEN [code |-> "Ok", neg |-> neg, mag |-> mag]
    ELSE LET d == to_digit(digits[i])
             mul == MulAddBytes(mag, 10, 0)
             add == MulAddBytes(Tail(mul), 1, d)
             overflow == [code |-> IF neg THEN "Underflow" ELSE "Overflow",
                          neg |-> neg, mag |-> mag]
         IN IF d < 0 THEN [code |-> "InvalidDigit", neg |-> neg, mag |-> mag]
            ELSE IF ~Fits(mul, neg) THEN overflow
            ELSE IF ~Fits(add, neg) THEN overflow
            ELSE atoi_digits(digits, i + 1, Tail(add), neg)

parse(text, w) ==
    IF text = <<>> THEN [code |-> "Empty", neg |-> FALSE, mag |-> ZeroBytes(w)]
    ELSE LET signed == text[1] \in {43, 45}
             neg == text[1] = 45
             digits == IF signed THEN Tail(text) ELSE text
         IN IF digits = <<>> THEN [code |-> "Empty", neg |-> neg, mag |-> ZeroBytes(w)]
            ELSE atoi_digits(digits, 1, ZeroBytes(w), neg)

\* the bytes least significant first
to_le_bytes(v) ==
    LET be == IF v.neg THEN Negate(v.mag) ELSE v.mag
    IN [i \in 1..Len(be) |-> be[Len(be) + 1 - i]]

\* iN::to_be_bytes
to_be_bytes(v) == IF v.neg THEN Negate(v.mag) ELSE v.mag

\* from_be_bytes reading the bytes as an unsigned integer
from_be_bytes_unsigned(bytes) == [neg |-> FALSE, mag |-> bytes]

\* iN::from_be_bytes
from_be_bytes(bytes) ==
    LET neg == bytes[1] >= 128
    IN [neg |-> neg, mag |-> IF neg THEN Negate(bytes) ELSE bytes]

RECURSIVE DecDigits(_)
DecDigits(mag) ==
    LET qr == DivModBytes(mag, 10, 0)
        q == SubSeq(qr, 1, Len(mag))
        r == qr[Len(qr)]
    IN IF q = ZeroBytes(Len(mag)) THEN <<48 + r>> ELSE DecDigits(q) \o <<48 + r>>

\* iN::to_string
to_string(v) == (IF v.neg THEN <<45>> ELSE <<>>) \o DecDigits(v.mag)

(***************************************************************************)
(* str::trim_end, str::as_bytes / str::len, String::from_utf8              *)
(***************************************************************************)
\* the code points with the Unicode White_Space property (char::is_whitespace)
WhiteSpace == (9..13) \cup {32, 133, 160, 5760} \cup (8192..8202)
                  \cup {8232, 8233, 8239, 8287, 12288}

\* trimming only the ASCII white space
RECURSIVE trim_ascii_end(_)
trim_ascii_end(text) ==
    IF text # <<>> /\ text[Len(text)] \in (9..13) \cup {32}
    THEN trim_ascii_end(SubSeq(text, 1, Len(text) - 1))
    ELSE text

RECURSIVE trim_end(_)
trim_end(text) ==
    IF text # <<>> /\ text[Len(text)] \in WhiteSpace
    THEN trim_end(SubSeq(text, 1, Len(text) - 1))
    ELSE text

\* the UTF-8 encoding of one code point
Utf8Char(c) ==
    IF c < 128 THEN <<c>>
    ELSE IF c < 2048 THEN <<192 + (c \div 64), 128 + (c % 64)>>
    ELSE IF c < 65536
    THEN <<224 + (c \div 4096), 128 + ((c \div 64) % 64), 128 + (c % 64)>>
    ELSE <<240 + (c \div 262144), 128 + ((c \div 4096) % 64),
           128 + ((c \div 64) % 64), 128 + (c % 64)>>

RECURSIVE as_bytes(_)
as_bytes(text) == IF text = <<>> THEN <<>> ELSE Utf8Char(text[1]) \o as_bytes(Tail(text))

IsCont(bytes, i) == i <= Len(bytes) /\ bytes[i] \in 128..191

\* decoding; an ill-formed sequence gives None
RECURSIVE from_utf8(_)
from_utf8(bytes) ==
    IF bytes = <<>> THEN Some(<<>>)
    ELSE LET b == bytes[1]
             n == IF b < 128 THEN 1
                  ELSE IF b \in 194..223 THEN 2
                  ELSE IF b \in 224..239 THEN 3
                  ELSE IF b \in 240..244 THEN 4
                  ELSE 0
             c == CASE n = 1 -> b
                    [] n = 2 -> (b - 192) * 64 + (bytes[2] - 128)
                    [] n = 3 -> (b - 224) * 4096 + (bytes[2] - 128) * 64 + (bytes[3] - 128)
                    [] n = 4 -> (b - 240) * 262144 + (bytes[2] - 128) * 4096
                                    + (bytes[3] - 128) * 64 + (bytes[4] - 128)
             wellFormed == /\ n > 0
                           /\ \A i \in 2..n : IsCont(bytes, i)
                           /\ n = 3 => c >= 2048 /\ c \notin 55296..57343
                           /\ n = 4 => c \in 65536..1114111
         IN IF ~wellFormed THEN None
            ELSE LET rest == from_utf8(SubSeq(bytes, n + 1, Len(bytes)))
                 IN IF rest = None THEN None ELSE Some(<<c>> \o rest.val)

(***************************************************************************)
(* Constraint::validate                                                    *)
(***************************************************************************)
IntValidate(text, w) ==
    LET r == parse(text, w)
    IN IF r.code = "Ok" THEN "Ok"
       ELSE IF r.code = "InvalidDigit" THEN "NotAnInt"
       ELSE "OutOfRange"

\* the length counted in characters instead of bytes
StrValidateChars(text, length) ==
    IF Len(trim_end(text)) > length THEN "ValueTooLong" ELSE "Ok"

StrValidate(text, length) ==
    LET trimmed == trim_end(text)
    IN IF Len(as_bytes(trimmed)) > length THEN "ValueTooLong" ELSE "Ok"

\* SqlType::constraint(): the boxed Constraint of the type, or the panic of
\* unimplemented!("Type constraint for {:?} is not currently implemented", ..)
constraint(t) ==
    CASE t.kind = "Char" -> Some([impl |-> "CharSqlTypeConstraint", length |-> t.length])
      [] t.kind = "VarChar" -> Some([impl |-> "VarCharSqlTypeConstraint", length |-> t.length])
      [] t.kind = "SmallInt" -> Some([impl |-> "SmallIntTypeConstraint", length |-> 0])
      [] t.kind = "Integer" -> Some([impl |-> "IntegerSqlTypeConstraint", length |-> 0])
      [] t.kind = "BigInt" -> Some([impl |-> "BigIntTypeConstraint", length |-> 0])
      [] OTHER -> Panic("not implemented: Type constraint for " \o t.kind
                            \o " is not currently implemented")

\* SqlType::constraint() followed by validate
validate(t, text) ==
    LET c == constraint(t)
    IN IF c.tag = "Panic" THEN c
       ELSE IF t.kind \in IntKinds THEN Some(IntValidate(text, IntWidth(t.kind)))
       ELSE Some(StrValidate(text, c.val.length))

(***************************************************************************)
(* Serializer::ser and Serializer::des                                     *)
(***************************************************************************)
IntSer(text, w) ==
    LET r == parse(text, w)
    IN IF r.code = "Ok" THEN Some(to_be_bytes(r)) ELSE Panic("not implemented")

IntDes(bytes, w) ==
    IF Len(bytes) < w THEN Panic("slice")
    ELSE Some(to_string(from_be_bytes(SubSeq(bytes, 1, w))))

StrSer(text) == Some(as_bytes(trim_end(text)))

StrDes(bytes) ==
    LET s == from_utf8(bytes)
    IN IF s = None THEN Panic("unwrap") ELSE s

\* a serializer() whose last arm hands out the string serializer
serializer_lenient(t) ==
    CASE t.kind = "Char" -> Some([impl |-> "CharSqlTypeSerializer"])
      [] t.kind = "SmallInt" -> Some([impl |-> "SmallIntTypeSerializer"])
      [] t.kind = "Integer" -> Some([impl |-> "IntegerSqlTypeSerializer"])
      [] t.kind = "BigInt" -> Some([impl |-> "BigIntTypeSerializer"])
      [] OTHER -> Some([impl |-> "VarCharSqlTypeSerializer"])

\* SqlType::serializer(): the boxed Serializer of the type (the declared length
\* is dropped), or the panic of
\* unimplemented!("Type Serializer for {:?} is not currently implemented", ..)
serializer(t) ==
    CASE t.kind = "Char" -> Some([impl |-> "CharSqlTypeSerializer"])
      [] t.kind = "VarChar" -> Some([impl |-> "VarCharSqlTypeSerializer"])
      [] t.kind = "SmallInt" -> Some([impl |-> "SmallIntTypeSerializer"])
      [] t.kind = "Integer" -> Some([impl |-> "IntegerSqlTypeSerializer"])
      [] t.kind = "BigInt" -> Some([impl |-> "BigIntTypeSerializer"])
      [] OTHER -> Panic("not implemented: Type Serializer for " \o t.kind
                            \o " is not currently implemented")

\* SqlType::serializer() followed by ser
ser(t, text) ==
    LET z == serializer(t)
    IN IF z.tag = "Panic" THEN z
       ELSE IF t.kind \in IntKinds THEN IntSer(text, IntWidth(t.kind))
       ELSE StrSer(text)

\* SqlType::serializer() followed by des
des(t, bytes) ==
    LET z == serializer(t)
    IN IF z.tag = "Panic" THEN z
       ELSE IF t.kind \in IntKinds THEN IntDes(bytes, IntWidth(t.kind))
       ELSE StrDes(bytes)

\* the variants of PostgreSqlType that to_pg_types names
PostgreSqlType ==
    {"Bool", "Char", "VarChar", "Decimal", "SmallInt", "Integer", "BigInt", "Real",
     "DoublePrecision", "Time", "TimeWithTimeZone", "Timestamp", "TimestampWithTimeZone",
     "Date", "Interval"}

\* a mapping with the two string arms exchanged
to_pg_types_swapped(t) ==
    CASE t.kind = "Char" -> "VarChar"
      [] t.kind = "VarChar" -> "Char"
      [] OTHER -> t.kind

\* SqlType::to_pg_types: one arm per variant, the length of Char and VarChar
\* is not bound
to_pg_types(t) ==
    CASE t.kind = "Bool" -> "Bool"
      [] t.kind = "Char" -> "Char"
      [] t.kind = "VarChar" -> "VarChar"
      [] t.kind = "Decimal" -> "Decimal"
      [] t.kind = "SmallInt" -> "SmallInt"
      [] t.kind = "Integer" -> "Integer"
      [] t.kind = "BigInt" -> "BigInt"
      [] t.kind = "Real" -> "Real"
      [] t.kind = "DoublePrecision" -> "DoublePrecision"
      [] t.kind = "Time" -> "Time"
      [] t.kind = "TimeWithTimeZone" -> "TimeWithTimeZone"
      [] t.kind = "Timestamp" -> "Timestamp"
      [] t.kind = "TimestampWithTimeZone" -> "TimestampWithTimeZone"
      [] t.kind = "Date" -> "Date"
      [] t.kind = "Interval" -> "Interval"

(***************************************************************************)
(* The inputs the type system is exercised on.                             *)
(***************************************************************************)
\* the text of a sequence of decimal digits
Text(ds) == [i \in 1..Len(ds) |-> 48 + ds[i]]

\* every text of at most n characters over the alphabet
AllTexts(alphabet, n) == UNION {[1..k -> alphabet] : k \in 0..n}

\* '0' '1' '9' '-' '+' '.' ' ' 'e'
IntAlphabet == {48, 49, 57, 45, 43, 46, 32, 101}

\* 'a' ' ' TAB, U+00A0 NO-BREAK SPACE, U+00E9 (2 bytes), U+3000 IDEOGRAPHIC SPACE
\* and U+20AC (3 bytes)
StrAlphabet == {97, 32, 9, 160, 233, 12288, 8364}

\* the decimal text of the greatest value of the kind
MaxText(kind) ==
    CASE kind = "SmallInt" -> Text(<<3, 2, 7, 6, 7>>)
      [] kind = "Integer" -> Text(<<2, 1, 4, 7, 4, 8, 3, 6, 4, 7>>)
      [] kind = "BigInt" -> Text(<<9, 2, 2, 3, 3, 7, 2, 0, 3, 6, 8, 5, 4, 7, 7, 5, 8, 0, 7>>)

\* the decimal text of the magnitude of the least value (the greatest plus one)
MinMagText(kind) ==
    CASE kind = "SmallInt" -> Text(<<3, 2, 7, 6, 8>>)
      [] kind = "Integer" -> Text(<<2, 1, 4, 7, 4, 8, 3, 6, 4, 8>>)
      [] kind = "BigInt" -> Text(<<9, 2, 2, 3, 3, 7, 2, 0, 3, 6, 8, 5, 4, 7, 7, 5, 8, 0, 8>>)

\* the decimal text of the magnitude one below the least value
BelowMinMagText(kind) ==
    CASE kind = "SmallInt" -> Text(<<3, 2, 7, 6, 9>>)
      [] kind = "Integer" -> Text(<<2, 1, 4, 7, 4, 8, 3, 6, 4, 9>>)
      [] kind = "BigInt" -> Text(<<9, 2, 2, 3, 3, 7, 2, 0, 3, 6, 8, 5, 4, 7, 7, 5, 8, 0, 9>>)

\* texts around the ends of the kind's range: a sign, leading zeros, the
\* magnitude, and possibly something after it
BoundaryTexts(kind) ==
    {sign \o [i \in 1..z |-> 48] \o body \o suffix :
        sign \in {<<>>, <<43>>, <<45>>},
        z \in 0..MaxZeros,
        body \in {MaxText(kind), MinMagText(kind), BelowMinMagText(kind)},
        suffix \in {<<>>, <<46, 57>>, <<101, 49>>, <<32>>, <<48>>}}

Inputs(t) ==
    IF t.kind \in IntKinds THEN AllTexts(IntAlphabet, MaxTextLen) \cup BoundaryTexts(t.kind)
    ELSE IF t.kind \in StrKinds THEN AllTexts(StrAlphabet, MaxStrLen)
    ELSE {<<>>, <<49>>}

(***************************************************************************)
(* The type system as a state machine: one SqlType and one input, on which *)
(* validate, ser and des (of what ser produced) are called.                *)
(***************************************************************************)
TypeInit ==
    /\ sqlType \in SqlType
    /\ in_value \in Inputs(sqlType)
    /\ verdict = None
    /\ out_value = None
    /\ des_value = None
    /\ pg_type = None

Validate ==
    /\ verdict = None
    /\ verdict' = validate(sqlType, in_value)
    /\ UNCHANGED <<sqlType, in_value, out_value, des_value, pg_type>>

Ser ==
    /\ out_value = None
    /\ out_value' = ser(sqlType, in_value)
    /\ UNCHANGED <<sqlType, in_value, verdict, des_value, pg_type>>

Des ==
    /\ out_value.tag = "Some"
    /\ des_value = None
    /\ des_value' = des(sqlType, out_value.val)
    /\ UNCHANGED <<sqlType, in_value, verdict, out_value, pg_type>>

\* to_pg_types is called on the type
ToPgTypes ==
    /\ pg_type = None
    /\ pg_type' = Some(to_pg_types(sqlType))
    /\ UNCHANGED <<sqlType, in_value, verdict, out_value, des_value>>


(***************************************************************************)
(* The storage frontend behind the handle: schemas, and tables of typed    *)
(* columns whose rows all hold the serialized values last written.         *)
(***************************************************************************)
Table(columns, rows, values) == [columns |-> columns, rows |-> rows, values |-> values]

\* x SMALLINT, y VARCHAR(MaxDeclLen), b BOOLEAN; two rows
TableT1 ==
    Table([x |-> [kind |-> "SmallInt", length |-> 0],
           y |-> [kind |-> "VarChar", length |-> MaxDeclLen],
           b |-> [kind |-> "Bool", length |-> 0]],
          2,
          [x |-> <<0, 0>>, y |-> <<>>, b |-> <<>>])

EmptyStorage == [schemas |-> {}, tables |-> {}]

\* schema s1 holding table t1
SeededStorage == [schemas |-> {"s1"}, tables |-> {[schema |-> "s1", name |-> "t1", table |-> TableT1]}]

\* what a storage call hands back: the storage after it and its result
Outcome(st, res) == [storage |-> st, result |-> res]
OpOk(n) == [tag |-> "Ok", error |-> "", names |-> <<>>, n |-> n]
OpErr(error, names) == [tag |-> "Err", error |-> error, names |-> names, n |-> 0]
SystemError == [tag |-> "SystemError", error |-> "", names |-> <<>>, n |-> 0]
Panicked == [tag |-> "Panic", error |-> "", names |-> <<>>, n |-> 0]

create_schema(st, name) ==
    IF name \in st.schemas THEN Outcome(st, OpErr("SchemaAlreadyExists", <<>>))
    ELSE Outcome([st EXCEPT !.schemas = @ \cup {name}], OpOk(0))

drop_schema(st, name) ==
    IF name \notin st.schemas THEN Outcome(st, OpErr("SchemaDoesNotExist", <<>>))
    ELSE Outcome([schemas |-> st.schemas \ {name},
                  tables |-> {t \in st.tables : t.schema # name}], OpOk(0))

\* the names of the pairs' columns that the table does not have, in order
RECURSIVE MissingColumns(_, _)
MissingColumns(columns, pairs) ==
    IF pairs = <<>> THEN <<>>
    ELSE (IF pairs[1][1] \in DOMAIN columns THEN <<>> ELSE <<pairs[1][1]>>)
             \o MissingColumns(columns, Tail(pairs))

\* the values after writing the serialized pairs, in order
RECURSIVE WritePairs(_, _, _)
WritePairs(columns, values, pairs) ==
    IF pairs = <<>> THEN values
    ELSE WritePairs(columns,
                    [values EXCEPT ![pairs[1][1]] = ser(columns[pairs[1][1]], pairs[1][2]).val],
                    Tail(pairs))

update_all(st, schema, name, pairs) ==
    IF schema \notin st.schemas THEN Outcome(st, OpErr("SchemaDoesNotExist", <<>>))
    ELSE IF ~\E t \in st.tables : t.schema = schema /\ t.name = name
    THEN Outcome(st, OpErr("TableDoesNotExist", <<>>))
    ELSE LET t == CHOOSE t \in st.tables : t.schema = schema /\ t.name = name
             columns == t.table.columns
             missing == MissingColumns(columns, pairs)
             verdicts == [i \in 1..Len(pairs) |-> validate(columns[pairs[i][1]], pairs[i][2])]
         IN IF missing # <<>> THEN Outcome(st, OpErr("ColumnDoesNotExist", missing))
            ELSE IF \E i \in 1..Len(pairs) : verdicts[i].tag = "Panic"
            THEN Outcome(st, Panicked)
            ELSE IF \E i \in 1..Len(pairs) : verdicts[i].val # "Ok"
            THEN Outcome(st, OpErr("ConstraintViolation", <<>>))
            ELSE LET written == [t EXCEPT !.table.values =
                                     WritePairs(columns, t.table.values, pairs)]
                 IN Outcome([st EXCEPT !.tables = (@ \ {t}) \cup {written}],
                            OpOk(t.table.rows))

(***************************************************************************)
(* The command objects.                                                    *)
(***************************************************************************)
Number(val) == [type |-> "Number", val |-> val, op |-> "", of |-> ""]
SingleQuotedString(val) == [type |-> "SingleQuotedString", val |-> val, op |-> "", of |-> ""]
\* a unary operator applied to a literal of the given type
UnaryOp(op, of, val) == [type |-> "UnaryOp", val |-> val, op |-> op, of |-> of]
\* any other expression, here the sum of two numeric literals
BinaryOp(val) == [type |-> "BinaryOp", val |-> val, op |-> "Plus", of |-> "Number"]

Assignment(id, value) == [id |-> id, value |-> value]

\* UpdateCommand::execute, the match on the assignment's value
AssignedValue(value) ==
    IF value.type = "Number" THEN Some(value.val)
    ELSE IF value.type = "SingleQuotedString" THEN Some(value.val)
    ELSE IF value.type = "UnaryOp"
    THEN IF value.op = "Minus" /\ value.of = "Number" THEN Some(<<45>> \o value.val)
         ELSE Panic("not implemented")
    ELSE Panic("not implemented")

\* a collection that puts each pair in front of the ones already collected
RECURSIVE CollectReversed(_)
CollectReversed(assignments) ==
    IF assignments = <<>> THEN Some(<<>>)
    ELSE LET v == AssignedValue(assignments[1].value)
             rest == CollectReversed(Tail(assignments))
         IN IF v.tag = "Panic" THEN v
            ELSE IF rest.tag = "Panic" THEN rest
            ELSE Some(rest.val \o <<<<assignments[1].id, v.val>>>>)

\* UpdateCommand::execute, the map over the assignments collected into to_update
RECURSIVE Collect(_)
Collect(assignments) ==
    IF assignments = <<>> THEN Some(<<>>)
    ELSE LET v == AssignedValue(assignments[1].value)
             rest == Collect(Tail(assignments))
         IN IF v.tag = "Panic" THEN v
            ELSE IF rest.tag = "Panic" THEN rest
            ELSE Some(<<<<assignments[1].id, v.val>>>> \o rest.val)

CreateSchemaCommand(schema) ==
    [op |-> "CreateSchema", schema |-> schema, table |-> "", assignments |-> <<>>,
     raw_sql_query |-> ""]
DropSchemaCommand(schema) ==
    [op |-> "DropSchema", schema |-> schema, table |-> "", assignments |-> <<>>,
     raw_sql_query |-> ""]
UpdateCommand(raw_sql_query, schema, table, assignments) ==
    [op |-> "Update", schema |-> schema, table |-> table, assignments |-> assignments,
     raw_sql_query |-> raw_sql_query]

\* the assignment lists of the UPDATE statements that are executed
Updates ==
    {UpdateCommand("update s1.t1 set x = 5", "s1", "t1",
                   <<Assignment("x", Number(<<53>>))>>),
     UpdateCommand("update s1.t1 set x = -5, y = 'ab'", "s1", "t1",
                   <<Assignment("x", UnaryOp("Minus", "Number", <<53>>)),
                     Assignment("y", SingleQuotedString(<<97, 98>>))>>),
     UpdateCommand("update s1.t1 set z = 1, x = 5, w = 2", "s1", "t1",
                   <<Assignment("z", Number(<<49>>)), Assignment("x", Number(<<53>>)),
                     Assignment("w", Number(<<50>>))>>),
     UpdateCommand("update s1.t1 set b = 1", "s1", "t1",
                   <<Assignment("b", Number(<<49>>))>>),
     UpdateCommand("update s1.t1 set x = 99999", "s1", "t1",
                   <<Assignment("x", Number(<<57, 57, 57, 57, 57>>))>>),
     UpdateCommand("update s1.t1 set x = 1 + 2", "s1", "t1",
                   <<Assignment("x", BinaryOp(<<49, 50>>))>>),
     UpdateCommand("update s1.t1 set y = 'a', x = -'a'", "s1", "t1",
                   <<Assignment("y", SingleQuotedString(<<97>>)),
                     Assignment("x", UnaryOp("Minus", "SingleQuotedString", <<97>>))>>),
     UpdateCommand("update s1.t1 set x = +5", "s1", "t1",
                   <<Assignment("x", UnaryOp("Plus", "Number", <<53>>))>>),
     UpdateCommand("update s1.t2 set x = 5", "s1", "t2",
                   <<Assignment("x", Number(<<53>>))>>)}

Commands == {CreateSchemaCommand("s1"), DropSchemaCommand("s1")} \cup Updates

\* the results of execute(): SystemResult<QueryResult>
QueryEvent(name, n) == [outer |-> "Ok", inner |-> "Ok", name |-> name, args |-> <<>>, n |-> n]
QueryError(name, args) == [outer |-> "Ok", inner |-> "Err", name |-> name, args |-> args, n |-> 0]
SystemFailure == [outer |-> "Err", inner |-> "", name |-> "", args |-> <<>>, n |-> 0]

\* the match with the table named without its schema
TranslateBareTable(c, r) ==
    IF r.tag = "SystemError" THEN SystemFailure
    ELSE IF c.op = "CreateSchema"
    THEN IF r.tag = "Ok" THEN QueryEvent("SchemaCreated", 0)
         ELSE QueryError("schema_already_exists", <<c.schema>>)
    ELSE IF c.op = "DropSchema"
    THEN IF r.tag = "Ok" THEN QueryEvent("SchemaDropped", 0)
         ELSE QueryError("schema_does_not_exist", <<c.schema>>)
    ELSE IF r.tag = "Ok" THEN QueryEvent("RecordsUpdated", r.n)
    ELSE IF r.error = "SchemaDoesNotExist" THEN QueryError("schema_does_not_exist", <<c.schema>>)
    ELSE IF r.error = "TableDoesNotExist" THEN QueryError("table_does_not_exist", <<c.table>>)
    ELSE IF r.error = "ColumnDoesNotExist" THEN QueryError("column_does_not_exist", r.names)
    ELSE QueryError("not_supported_operation", <<c.raw_sql_query>>)

\* the match on what the storage call returned, per command
Translate(c, r) ==
    IF r.tag = "SystemError" THEN SystemFailure
    ELSE IF c.op = "CreateSchema"
    THEN IF r.tag = "Ok" THEN QueryEvent("SchemaCreated", 0)
         ELSE QueryError("schema_already_exists", <<c.schema>>)
    ELSE IF c.op = "DropSchema"
    THEN IF r.tag = "Ok" THEN QueryEvent("SchemaDropped", 0)
         ELSE QueryError("schema_does_not_exist", <<c.schema>>)
    ELSE IF r.tag = "Ok" THEN QueryEvent("RecordsUpdated", r.n)
    ELSE IF r.error = "SchemaDoesNotExist" THEN QueryError("schema_does_not_exist", <<c.schema>>)
    ELSE IF r.error = "TableDoesNotExist"
    THEN QueryError("table_does_not_exist", <<c.schema \o "." \o c.table>>)
    ELSE IF r.error = "ColumnDoesNotExist" THEN QueryError("column_does_not_exist", r.names)
    ELSE QueryError("not_supported_operation", <<c.raw_sql_query>>)

\* the storage call each command makes
StorageCall(c, pairs, st) ==
    IF c.op = "CreateSchema" THEN create_schema(st, c.schema)
    ELSE IF c.op = "DropSchema" THEN drop_schema(st, c.schema)
    ELSE update_all(st, c.schema, c.table, pairs)


(***************************************************************************)
(* execute() of the command objects, called concurrently on one handle.    *)
(* pc: start -> lock -> call -> in_call -> return -> done, or panicked.    *)
(***************************************************************************)
Callers == 1..NumCallers

NoResult == [tag |-> "None", error |-> "", names |-> <<>>, n |-> 0]
NotReturned == [outer |-> "", inner |-> "", name |-> "", args |-> <<>>, n |-> 0]

\* a lock that does not exclude
CanLockAlways(m) == TRUE

\* Mutex::lock() goes through when no guard is alive
CanLock(m) == m.holder = 0

CmdInit ==
    /\ storage \in {EmptyStorage, SeededStorage}
    /\ storage0 = storage
    /\ mutex = [holder |-> 0, poisoned |-> FALSE]
    /\ cmd \in [Callers -> Commands]
    /\ pc = [c \in Callers |-> "start"]
    /\ to_update = [c \in Callers |-> <<>>]
    /\ seen = [c \in Callers |-> EmptyStorage]
    /\ call_result = [c \in Callers |-> NoResult]
    /\ result = [c \in Callers |-> NotReturned]
    /\ acquired = <<>>

\* the names are read off the command; UPDATE collects to_update, and an
\* assignment that is not supported panics before the handle is touched
Begin(c) ==
    /\ pc[c] = "start"
    /\ LET collected == IF cmd[c].op = "Update" THEN Collect(cmd[c].assignments)
                        ELSE Some(<<>>)
       IN IF collected.tag = "Panic"
          THEN /\ pc' = [pc EXCEPT ![c] = "panicked"]
               /\ UNCHANGED to_update
          ELSE /\ pc' = [pc EXCEPT ![c] = "lock"]
               /\ to_update' = [to_update EXCEPT ![c] = collected.val]
    /\ UNCHANGED <<storage, storage0, mutex, cmd, seen, call_result, result, acquired>>

\* self.storage.lock().unwrap(): blocks while a guard is alive; a poisoned
\* mutex makes lock() return Err and unwrap() panic
Lock(c) ==
    /\ pc[c] = "lock"
    /\ CanLock(mutex)
    /\ IF mutex.poisoned
       THEN /\ pc' = [pc EXCEPT ![c] = "panicked"]
            /\ UNCHANGED <<mutex, acquired>>
       ELSE /\ pc' = [pc EXCEPT ![c] = "call"]
            /\ mutex' = [mutex EXCEPT !.holder = c]
            /\ acquired' = Append(acquired, c)
    /\ UNCHANGED <<storage, storage0, cmd, to_update, seen, call_result, result>>

\* the storage call starts on the storage as it is now
CallStart(c) ==
    /\ pc[c] = "call"
    /\ pc' = [pc EXCEPT ![c] = "in_call"]
    /\ seen' = [seen EXCEPT ![c] = storage]
    /\ UNCHANGED <<storage, storage0, mutex, cmd, to_update, call_result, result, acquired>>

\* the storage call ends: it returns a system-level error, or takes effect and
\* returns its result, or panics; a panic unwinds through the guard, which
\* releases the mutex and poisons it
CallEnd(c) ==
    /\ pc[c] = "in_call"
    /\ \E io \in {"ok", "error"} :
         LET outcome == IF io = "error" THEN Outcome(seen[c], SystemError)
                        ELSE StorageCall(cmd[c], to_update[c], seen[c])
         IN /\ call_result' = [call_result EXCEPT ![c] = outcome.result]
            /\ IF outcome.result.tag = "Ok" THEN storage' = outcome.storage
               ELSE UNCHANGED storage
            /\ IF outcome.result.tag = "Panic"
               THEN /\ pc' = [pc EXCEPT ![c] = "panicked"]
                    /\ mutex' = [holder |-> 0, poisoned |-> TRUE]
               ELSE /\ pc' = [pc EXCEPT ![c] = "return"]
                    /\ UNCHANGED mutex
    /\ UNCHANGED <<storage0, cmd, to_update, seen, result, acquired>>

\* the match arms build the result; the guard is dropped as execute returns
Return(c) ==
    /\ pc[c] = "return"
    /\ result' = [result EXCEPT ![c] = Translate(cmd[c], call_result[c])]
    /\ mutex' = [mutex EXCEPT !.holder = 0]
    /\ pc' = [pc EXCEPT ![c] = "done"]
    /\ UNCHANGED <<storage, storage0, cmd, to_update, seen, call_result, acquired>>

(***************************************************************************)
(* The specifications.                                                     *)
(***************************************************************************)
TypeIdle ==
    /\ sqlType = [kind |-> "SmallInt", length |-> 0]
    /\ in_value = <<>>
    /\ verdict = None
    /\ out_value = None
    /\ des_value = None
    /\ pg_type = None

CmdIdle ==
    /\ storage = EmptyStorage
    /\ storage0 = EmptyStorage
    /\ mutex = [holder |-> 0, poisoned |-> FALSE]
    /\ cmd = [c \in Callers |-> CreateSchemaCommand("s1")]
    /\ pc = [c \in Callers |-> "start"]
    /\ to_update = [c \in Callers |-> <<>>]
    /\ seen = [c \in Callers |-> EmptyStorage]
    /\ call_result = [c \in Callers |-> NoResult]
    /\ result = [c \in Callers |-> NotReturned]
    /\ acquired = <<>>

\* the type system on its own
Init == TypeInit /\ CmdIdle

Next ==
    \/ Validate /\ UNCHANGED cmdVars
    \/ Ser /\ UNCHANGED cmdVars
    \/ Des /\ UNCHANGED cmdVars
    \/ ToPgTypes /\ UNCHANGED cmdVars

Spec == Init /\ [][Next]_vars

\* the commands executing concurrently
ExecInit == TypeIdle /\ CmdInit

ExecNext ==
    \/ \E c \in Callers : Begin(c) /\ UNCHANGED typeVars
    \/ \E c \in Callers : Lock(c) /\ UNCHANGED typeVars
    \/ \E c \in Callers : CallStart(c) /\ UNCHANGED typeVars
    \/ \E c \in Callers : CallEnd(c) /\ UNCHANGED typeVars
    \/ \E c \in Callers : Return(c) /\ UNCHANGED typeVars

ExecSpec == ExecInit /\ [][ExecNext]_vars


(***************************************************************************)
(* What the claims speak of, stated apart from the code's own operators.   *)
(***************************************************************************)
IsIntType == sqlType.kind \in IntKinds
IsStrType == sqlType.kind \in StrKinds
Accepted == verdict = Some("Ok")

\* a digit sequence without its leading zeros, keeping the last digit
RECURSIVE DropLeadingZeros(_)
DropLeadingZeros(digits) ==
    IF Len(digits) > 1 /\ digits[1] = 48 THEN DropLeadingZeros(Tail(digits)) ELSE digits

\* strips a leading '+', collapses '-0' to '0' and drops leading zeros
canonicalize(text) ==
    LET unsigned == IF text # <<>> /\ text[1] = 43 THEN Tail(text) ELSE text
        neg == unsigned # <<>> /\ unsigned[1] = 45
        digits == DropLeadingZeros(IF neg THEN Tail(unsigned) ELSE unsigned)
    IN IF digits = <<48>> THEN digits
       ELSE (IF neg THEN <<45>> ELSE <<>>) \o digits

\* the decimal digits (as numbers) of a natural number
RECURSIVE DigitsOf(_)
DigitsOf(n) == IF n < 10 THEN <<n>> ELSE DigitsOf(n \div 10) \o <<n % 10>>

\* decimal digits times k plus c, the carry still at the head
RECURSIVE DecMulAdd(_, _, _)
DecMulAdd(ds, k, c) ==
    IF ds = <<>> THEN <<c>>
    ELSE LET t == ds[Len(ds)] * k + c
         IN DecMulAdd(SubSeq(ds, 1, Len(ds) - 1), k, t \div 10) \o <<t % 10>>

\* decimal digits times k
DecMul(ds, k) ==
    LET p == DecMulAdd(ds, k, 0)
    IN IF p[1] = 0 THEN Tail(p) ELSE DigitsOf(p[1]) \o Tail(p)

\* the decimal digits of 2^15, of 2^31 = 2^15 * 2^16 and of 2^63 = 2^31 * 2^16 * 2^16
RangeTops ==
    LET top2 == DigitsOf(2 ^ 15)
        top4 == DecMul(top2, 2 ^ 16)
        top8 == DecMul(DecMul(top4, 2 ^ 16), 2 ^ 16)
    IN [w \in {2, 4, 8} |-> IF w = 2 THEN top2 ELSE IF w = 4 THEN top4 ELSE top8]

\* the range of a signed integer of w bytes is [-2^(8w-1), 2^(8w-1) - 1]; none
\* of these powers of two ends in 0 or 9
RangeTop(w) == RangeTops[w]
MaxOf(w) == Text([RangeTop(w) EXCEPT ![Len(RangeTop(w))] = @ - 1])
AboveMaxOf(w) == Text(RangeTop(w))
MinOf(w) == <<45>> \o Text(RangeTop(w))
BelowMinOf(w) == <<45>> \o Text([RangeTop(w) EXCEPT ![Len(RangeTop(w))] = @ + 1])

\* the text names a negative number: a '-' and a digit other than 0
NamesNegative(text) ==
    /\ text # <<>> /\ text[1] = 45
    /\ \E i \in 2..Len(text) : text[i] \in 49..57

\* the value of an accepted text of few significant digits
RECURSIVE Horner(_, _)
Horner(digits, acc) ==
    IF digits = <<>> THEN acc ELSE Horner(Tail(digits), acc * 10 + (digits[1] - 48))

FewDigits(text) == Len(canonicalize(text)) <= 6

ValueOf(text) ==
    LET c == canonicalize(text)
    IN IF c[1] = 45 THEN 0 - Horner(Tail(c), 0) ELSE Horner(c, 0)

\* the big-endian two's complement bytes of a value below 2^23 in magnitude
TwosComplement(v, w) ==
    [i \in 1..w |->
        IF w - i >= 3 THEN (IF v < 0 THEN 255 ELSE 0)
        ELSE ((v % 16777216) \div (256 ^ (w - i))) % 256]

\* r is text without its trailing characters from the set ws, and nothing else
TrimmedOf(r, text, ws) ==
    \E k \in 0..Len(text) :
        /\ r = SubSeq(text, 1, k)
        /\ \A i \in (k + 1)..Len(text) : text[i] \in ws
        /\ k = 0 \/ text[k] \notin ws

\* the white space of ASCII
AsciiWhiteSpace == (9..13) \cup {32}

\* the number of bytes of the UTF-8 form of the text
RECURSIVE ByteLength(_)
ByteLength(text) ==
    IF text = <<>> THEN 0
    ELSE (IF text[1] < 128 THEN 1 ELSE IF text[1] < 2048 THEN 2
          ELSE IF text[1] < 65536 THEN 3 ELSE 4) + ByteLength(Tail(text))

\* the verdict of a length check on text trimmed of the characters in ws
LengthVerdict(text, n, ws) ==
    LET k == CHOOSE k \in 0..Len(text) :
                 /\ \A i \in (k + 1)..Len(text) : text[i] \in ws
                 /\ k = 0 \/ text[k] \notin ws
    IN IF ByteLength(SubSeq(text, 1, k)) <= n THEN "Ok" ELSE "ValueTooLong"

(***************************************************************************)
(* C1  For SmallInt, Integer and BigInt and every text that validate       *)
(* accepts, des(ser(text)) is canonicalize(text): the text without a       *)
(* leading '+', without leading zeros, and with '-0' turned into '0'.      *)
(***************************************************************************)
C1_IntegerRoundTrip ==
    (IsIntType /\ Accepted /\ des_value # None) => des_value = Some(canonicalize(in_value))

\* a BigInt text with a '+' and leading zeros has been validated and decoded
C1_Witness ==
    /\ sqlType.kind = "BigInt" /\ Accepted
    /\ in_value = <<43, 48, 48>> \o MaxText("BigInt")
    /\ des_value = Some(MaxText("BigInt"))

C3_RangeEnds ==
    (IsIntType /\ verdict # None) =>
        LET w == IntWidth(sqlType.kind)
        IN /\ in_value \in {MaxOf(w), MinOf(w)} => verdict = Some("Ok")
           /\ in_value \in {AboveMaxOf(w), BelowMinOf(w)} => verdict = Some("OutOfRange")

\* BigInt has been asked about -9223372036854775809
C3_Witness ==
    /\ sqlType.kind = "BigInt"
    /\ in_value = BelowMinOf(8)
    /\ verdict = Some("OutOfRange")

(***************************************************************************)
(* C4  As claimed: for each integer type validate returns NotAnInt for     *)
(* every input that contains a character other than a decimal digit or a   *)
(* leading '-', whether or not the digits before that character are in     *)
(* range.                                                                  *)
(***************************************************************************)
C4_NonDigitIsNotAnInt ==
    (/\ IsIntType
     /\ verdict # None
     /\ \E i \in 1..Len(in_value) :
            in_value[i] \notin 48..57 /\ ~(i = 1 /\ in_value[i] = 45))
        => verdict = Some("NotAnInt")

(***************************************************************************)
(* C5  As claimed: for each integer type validate on the empty string      *)
(* returns NotAnInt.                                                       *)
(***************************************************************************)
C5_EmptyIsNotAnInt ==
    (IsIntType /\ verdict # None /\ in_value = <<>>) => verdict = Some("NotAnInt")

(***************************************************************************)
(* C6  For every text that validate accepts, ser returns the big-endian    *)
(* two's complement bytes of the value, exactly 2 bytes for SmallInt, 4    *)
(* for Integer and 8 for BigInt: the high bit of the first byte is set     *)
(* exactly for a negative value, the greatest value is 7F FF.., the least  *)
(* is 80 00.., and a value of few digits has the bytes of that number.     *)
(***************************************************************************)
C6_BigEndianBytes ==
    (IsIntType /\ Accepted /\ out_value # None) =>
        LET w == IntWidth(sqlType.kind)
        IN /\ out_value.tag = "Some"
           /\ Len(out_value.val) = w
           /\ \A i \in 1..w : out_value.val[i] \in 0..255
           /\ out_value.val[1] >= 128 <=> NamesNegative(in_value)
           /\ in_value = MaxOf(w) => out_value.val = [i \in 1..w |-> IF i = 1 THEN 127 ELSE 255]
           /\ in_value = MinOf(w) => out_value.val = [i \in 1..w |-> IF i = 1 THEN 128 ELSE 0]
           /\ FewDigits(in_value) => out_value.val = TwosComplement(ValueOf(in_value), w)

\* Integer has serialized "-19" as FF FF FF ED
C6_Witness ==
    /\ sqlType.kind = "Integer" /\ Accepted
    /\ in_value = <<45, 49, 57>>
    /\ out_value = Some(<<255, 255, 255, 237>>)

Ended(c) == pc[c] \in {"done", "panicked"}

\* a right-hand side that is neither a numeric literal, nor a single-quoted
\* string literal, nor unary minus applied to a numeric literal
NotSupported(value) ==
    ~ \/ value.type = "Number"
      \/ value.type = "SingleQuotedString"
      \/ value.type = "UnaryOp" /\ value.op = "Minus" /\ value.of = "Number"

HasNotSupported(c) ==
    /\ c.op = "Update"
    /\ \E i \in 1..Len(c.assignments) : NotSupported(c.assignments[i].value)

\* the callers whose storage call has ended, in the order of acquisition
Served == SelectSeq(acquired, LAMBDA c : call_result[c] # NoResult)

\* the commands of the callers in order run one after another from st: the
\* storage at the end and the result of each storage call; a call that failed
\* at system level fails there again
RECURSIVE SerialRun(_, _)
SerialRun(order, st) ==
    IF order = <<>> THEN [storage |-> st, results |-> <<>>]
    ELSE LET c == order[1]
             o == IF call_result[c].tag = "SystemError" THEN Outcome(st, SystemError)
                  ELSE StorageCall(cmd[c], Collect(cmd[c].assignments).val, st)
             rest == SerialRun(Tail(order), o.storage)
         IN [storage |-> rest.storage, results |-> <<o.result>> \o rest.results]

(***************************************************************************)
(* C8  As claimed: UPDATE.execute on an assignment whose right-hand side   *)
(* is not a numeric literal, a single-quoted string literal or unary minus *)
(* applied to a numeric literal ends by returning the query-level error    *)
(* not_supported_operation(raw_sql).                                       *)
(***************************************************************************)
C8_NotSupportedIsReturned ==
    \A c \in Callers :
        (HasNotSupported(cmd[c]) /\ Ended(c)) =>
            result[c] = QueryError("not_supported_operation", <<cmd[c].raw_sql_query>>)

(***************************************************************************)
(* C9  As claimed: every execute() releases the handle on every exit path, *)
(* a failure inside the storage call included, so that once an execute has *)
(* ended the handle is not held by it and can be acquired by a later       *)
(* execute (a poisoned mutex makes every later lock().unwrap() fail).      *)
(***************************************************************************)
C9_HandleUsableAfterExecute ==
    \A c \in Callers : Ended(c) => (mutex.holder # c /\ ~mutex.poisoned)

(***************************************************************************)
(* C10  With several execute() running on one handle, at most one caller   *)
(* is inside a storage call, and the storage and the result of every call  *)
(* are those of running the commands one after another in the order in     *)
(* which their callers acquired the handle.                                *)
(***************************************************************************)
C10_SerializedByAcquisition ==
    /\ Cardinality({c \in Callers : pc[c] = "in_call"}) <= 1
    /\ LET run == SerialRun(Served, storage0)
       IN /\ storage = run.storage
          /\ \A i \in 1..Len(Served) :
                 /\ call_result[Served[i]] = run.results[i]
                 /\ pc[Served[i]] = "done" =>
                        result[Served[i]] = Translate(cmd[Served[i]], run.results[i])

\* caller 2 dropped the missing schema first, caller 1 created it afterwards
C10_Witness ==
    /\ storage0 = EmptyStorage
    /\ acquired = <<2, 1>>
    /\ pc[1] = "done" /\ pc[2] = "done"
    /\ result[2] = QueryError("schema_does_not_exist", <<"s1">>)
    /\ result[1] = QueryEvent("SchemaCreated", 0)
    /\ storage.schemas = {"s1"}


(***************************************************************************)
(* C11  Each command's execute turns what the storage call returned into   *)
(* the paired outcome: CREATE SCHEMA: Ok -> SchemaCreated,                 *)
(* SchemaAlreadyExists -> schema_already_exists(name); DROP SCHEMA: Ok ->  *)
(* SchemaDropped, SchemaDoesNotExist -> schema_does_not_exist(name);       *)
(* UPDATE: Ok(n) -> RecordsUpdated(n), SchemaDoesNotExist ->               *)
(* schema_does_not_exist(schema), TableDoesNotExist ->                     *)
(* table_does_not_exist("schema.table"), ColumnDoesNotExist(names) ->      *)
(* column_does_not_exist(names), any other operation failure ->            *)
(* not_supported_operation(raw_sql); a system-level failure of the storage *)
(* call is returned as the outer error and never as a QueryError.          *)
(***************************************************************************)
\* the pairs of the claim: (command, storage result, name, arguments, count)
PairedOutcome(c, r) ==
    CASE r.tag = "SystemError" ->
             [outer |-> "Err", inner |-> "", name |-> "", args |-> <<>>, n |-> 0]
      [] r.tag = "Ok" ->
             [outer |-> "Ok", inner |-> "Ok",
              name |-> CASE c.op = "CreateSchema" -> "SchemaCreated"
                         [] c.op = "DropSchema" -> "SchemaDropped"
                         [] c.op = "Update" -> "RecordsUpdated",
              args |-> <<>>,
              n |-> IF c.op = "Update" THEN r.n ELSE 0]
      [] r.tag = "Err" ->
             [outer |-> "Ok", inner |-> "Err",
              name |-> CASE r.error = "SchemaAlreadyExists" -> "schema_already_exists"
                         [] r.error = "SchemaDoesNotExist" -> "schema_does_not_exist"
                         [] r.error = "TableDoesNotExist" -> "table_does_not_exist"
                         [] r.error = "ColumnDoesNotExist" -> "column_does_not_exist"
                         [] OTHER -> "not_supported_operation",
              args |-> CASE r.error \in {"SchemaAlreadyExists", "SchemaDoesNotExist"} ->
                                <<c.schema>>
                         [] r.error = "TableDoesNotExist" -> <<c.schema \o "." \o c.table>>
                         [] r.error = "ColumnDoesNotExist" -> r.names
                         [] OTHER -> <<c.raw_sql_query>>,
              n |-> 0]

C11_PairedOutcomes ==
    \A c \in Callers :
        pc[c] = "done" =>
            /\ result[c] = PairedOutcome(cmd[c], call_result[c])
            /\ call_result[c].tag = "SystemError" <=> result[c].outer = "Err"

\* both callers are done: one UPDATE named a table that does not exist, the
\* other broke a column's constraint, which has no QueryError of its own
C11_Witness ==
    /\ pc[1] = "done" /\ pc[2] = "done"
    /\ call_result[1].error = "TableDoesNotExist"
    /\ result[1] = QueryError("table_does_not_exist", <<"s1.t2">>)
    /\ call_result[2].error = "ConstraintViolation"
    /\ result[2] = QueryError("not_supported_operation", <<"update s1.t1 set x = 99999">>)


(***************************************************************************)
(* C12  constraint() returns a Constraint for exactly the types for which  *)
(* serializer() returns a Serializer: SmallInt, Integer, BigInt, Char(_)   *)
(* and VarChar(_).  For each of the ten other variants both fail with the  *)
(* not-implemented panic that names the variant, and no validate, ser or   *)
(* des ever runs on them.                                                  *)
(***************************************************************************)
SupportedKinds == {"SmallInt", "Integer", "BigInt", "Char", "VarChar"}

C12_SameSupport ==
    LET c == constraint(sqlType)
        z == serializer(sqlType)
    IN /\ c.tag = "Some" <=> z.tag = "Some"
       /\ c.tag = "Some" <=> sqlType.kind \in SupportedKinds
       /\ sqlType.kind \notin SupportedKinds =>
              /\ c = Panic("not implemented: Type constraint for " \o sqlType.kind
                               \o " is not currently implemented")
              /\ z = Panic("not implemented: Type Serializer for " \o sqlType.kind
                               \o " is not currently implemented")
              /\ verdict # None => verdict = c
              /\ out_value # None => out_value = z
              /\ des_value = None

\* both calls have been made on Interval and both have panicked
C12_Witness ==
    /\ sqlType.kind = "Interval"
    /\ verdict.tag = "Panic"
    /\ out_value.tag = "Panic"


(***************************************************************************)
(* C13  Once execute() of an UPDATE has collected its assignments, the     *)
(* list it hands to update_all has one (column, text) pair per assignment, *)
(* in the order of the assignments: the text of a numeric literal as       *)
(* written, the unquoted text of a single-quoted string, or "-" followed   *)
(* by the literal's text for unary minus on a numeric literal.  Nothing is *)
(* dropped, duplicated or reordered.                                       *)
(***************************************************************************)
IsLiteralForm(value) ==
    \/ value.type \in {"Number", "SingleQuotedString"}
    \/ value.type = "UnaryOp" /\ value.op = "Minus" /\ value.of = "Number"

TextualValue(value) ==
    IF value.type = "UnaryOp" THEN <<45>> \o value.val ELSE value.val

HandedToUpdateAll(c) == pc[c] \in {"lock", "call", "in_call", "return", "done"}

C13_PairPerAssignment ==
    \A c \in Callers :
        cmd[c].op = "Update" /\ HandedToUpdateAll(c) =>
            LET a == cmd[c].assignments
                p == to_update[c]
            IN /\ Len(p) = Len(a)
               /\ \A i \in 1..Len(a) :
                      /\ IsLiteralForm(a[i].value)
                      /\ p[i] = <<a[i].id, TextualValue(a[i].value)>>

\* update s1.t1 set x = -5, y = 'ab' is inside update_all with ("x", "-5")
\* then ("y", "ab"), while the three-assignment statement has returned
C13_Witness ==
    /\ pc[1] = "in_call"
    /\ cmd[1].raw_sql_query = "update s1.t1 set x = -5, y = 'ab'"
    /\ to_update[1] = <<<<"x", <<45, 53>>>>, <<"y", <<97, 98>>>>>>
    /\ pc[2] = "done"
    /\ to_update[2] = <<<<"z", <<49>>>>, <<"x", <<53>>>>, <<"w", <<50>>>>>>


(***************************************************************************)
(* C14  to_pg_types is total over the 15 variants of SqlType and returns   *)
(* the PostgreSqlType variant of the same name; for Char(n) and VarChar(n) *)
(* the result is Char / VarChar whatever the length n.                     *)
(***************************************************************************)
C14_SameNameVariant ==
    /\ Cardinality({t.kind : t \in SqlType}) = 15
    /\ pg_type # None =>
          /\ pg_type.val \in PostgreSqlType
          /\ pg_type.val = sqlType.kind
          /\ sqlType.kind \in StrKinds =>
                 \A n \in 0..MaxDeclLen :
                     to_pg_types([kind |-> sqlType.kind, length |-> n]) = pg_type.val

\* to_pg_types has been called on VarChar(2) and has returned VarChar
C14_Witness ==
    /\ sqlType = [kind |-> "VarChar", length |-> MaxDeclLen]
    /\ pg_type = Some("VarChar")


====
